---- MODULE Spec2Model ----
(***************************************************************************)
(* The speech-token generation engine of third_party/csm_runtime:          *)
(* Generator.generate (generator.py), the watermark post-processor         *)
(* (watermarking.py) and the CsmRuntime.generate wrapper (runtime.py).     *)
(* The neural model, the sub-word tokenizer, the audio codec, the          *)
(* watermark embedder and the resampler are collaborators: deterministic   *)
(* stand-ins with the interface the code consumes.                         *)
(***************************************************************************)
EXTENDS Integers, Sequences, FiniteSets, TLC

(***************************************************************************)
(* Program constants.                                                      *)
(***************************************************************************)
\* mimi.set_num_codebooks(32): the number of audio codebook channels.
K == 32
\* torch.zeros(len(text_tokens), 33, ...): the width of a row, K audio slots + text slot.
RowWidth == 33
\* max_seq_len = 2048
max_seq_len == 2048
\* int(max_audio_length_ms / 80): the duration of one frame, in milliseconds.
FrameMs == 80
\* new_freq=44100: the sample rate the watermark is embedded at.
EmbeddingRate == 44100
\* CSM_1B_GH_WATERMARK = [212, 211, 146, 56, 201]
CSM_1B_GH_WATERMARK == <<212, 211, 146, 56, 201>>

(***************************************************************************)
(* Bounds of the model.                                                    *)
(***************************************************************************)
\* The stand-in model emits n non-zero frames and then the all-zero frame, n in 0..MaxFrames.
MaxFrames == 3
\* The largest of the small length budgets, in frames.
MaxBudgetFrames == 2
\* The large length budget leaves room for prompts shorter than BoundaryLen rows.
BoundaryLen == 5
\* A stand-in model that raises does so at invocation f, f in 1..MaxFailAt.
MaxFailAt == 2
\* A faulty watermark stage raises on waveforms of at least WmFailFrames frames.
WmFailFrames == 2

Callers == {1, 2}

(***************************************************************************)
(* Small helpers.                                                          *)
(***************************************************************************)
Min(a, b) == IF a <= b THEN a ELSE b

\* ceil(a / b) for a >= 0, b > 0
CeilDiv(a, b) == (a + b - 1) \div b

\* Python's int(x / d) for an integer x and d > 0: truncation toward zero.
TruncDiv(x, d) == IF x >= 0 THEN x \div d ELSE -((-x) \div d)

RECURSIVE Concat(_)
\* torch.cat(list, dim=0): the rows of the listed tensors, in list order.
Concat(list) == IF list = <<>> THEN <<>> ELSE Head(list) \o Concat(Tail(list))

(***************************************************************************)
(* Tensors holding audio are modelled by their shape, their true sample    *)
(* rate, the token matrix they were decoded from, the watermark key        *)
(* embedded in them and the operations applied since (each                 *)
(* <<name, from, to>>).                                                    *)
(***************************************************************************)
\* No tensor at all: what a variable holds before anything is assigned to it.
NoTensor == [shape |-> <<>>, rate |-> 0, codes |-> <<>>, key |-> <<>>, ops |-> <<>>]

\* Tensor.squeeze(0): drops dimension 0 when its size is 1.
Squeeze0(shape) == IF Len(shape) > 0 /\ shape[1] = 1 THEN Tail(shape) ELSE shape

\* Tensor.ndim
Ndim(w) == Len(w.shape)

\* The number of samples of an audio tensor (its last dimension; 1 for a 0-dim scalar).
NumSamples(w) == IF Len(w.shape) = 0 THEN 1 ELSE w.shape[Len(w.shape)]

\* torch.zeros(n, device=...): a 1-dim tensor of n zeros (it came from no codec).
Zeros(n) == [shape |-> <<n>>, rate |-> 0, codes |-> <<>>, key |-> <<>>,
             ops |-> <<<<"zeros", n, 0>>>>]

\* torchaudio.functional.resample(w, orig_freq, new_freq): returns w itself when the
\* two frequencies are equal; otherwise ceil(n * new / orig) samples, and the true
\* rate of the content scales by new / orig.
Resample(w, orig_freq, new_freq) ==
    IF orig_freq = new_freq THEN w
    ELSE [w EXCEPT !.shape = [i \in 1..Len(w.shape) |->
                                 IF i = Len(w.shape)
                                 THEN CeilDiv(w.shape[i] * new_freq, orig_freq)
                                 ELSE w.shape[i]],
                   !.rate = (w.rate * new_freq) \div orig_freq,
                   !.ops = Append(@, <<"resample", orig_freq, new_freq>>)]

\* watermarker.encode_wav(audio, 44100, key, ...): same length and rate, key embedded.
EncodeWav(w, rate, key) ==
    [w EXCEPT !.ops = Append(@, <<"embed", rate, key[1]>>), !.key = key]

(***************************************************************************)
(* Collaborator stand-ins: text tokenizer, audio codec, audio files.       *)
(***************************************************************************)
\* tokenizer.bos_token_id / tokenizer.eos_token_id of the loaded tokenizer.
BosId == 1
EosId == 2

\* The sub-word ids of a formatted string, before post-processing (stand-in vocabulary).
SubwordIds(s) ==
    CASE s = "[0]Hi"      -> <<10, 20>>
      [] s = "[1]Hi"      -> <<11, 20>>
      [] s = "[0]Bye now" -> <<10, 21, 22>>
      [] s = "[1]Bye now" -> <<11, 21, 22>>
      [] s = "[0]Long"    -> [i \in 1..(max_seq_len - BoundaryLen) |-> 30]
      [] s = "[0]Longer"  -> [i \in 1..(max_seq_len - BoundaryLen + 2) |-> 30]
      [] s = "[0]Longest" -> [i \in 1..(max_seq_len - BoundaryLen + 4) |-> 30]
      [] OTHER            -> <<10>>

\* TemplateProcessing(single="{bos}:0 $A:0 {eos}:0"): bos and eos wrap the sub-words.
TextEncode(s) == <<BosId>> \o SubwordIds(s) \o <<EosId>>

\* The codec's hop, in samples at `rate`: one frame per 80 ms.
HopSamples(rate) == (rate * FrameMs) \div 1000

\* mimi.encode(audio)[0]: a K x F matrix of codes, F = ceil(samples / hop).
MimiEncode(audio, rate) ==
    LET F == CeilDiv(NumSamples(audio), HopSamples(rate))
    IN  [k \in 1..K |-> [f \in 1..F |-> (k + f + NumSamples(audio)) % 3]]

\* mimi.decode(codes): a (1, 1, T * hop) waveform at the engine's sample rate.
MimiDecode(codes, rate) ==
    [shape |-> <<1, 1, Len(codes[1]) * HopSamples(rate)>>, rate |-> rate,
     codes |-> codes, key |-> <<>>, ops |-> <<<<"decode", 0, 0>>>>]

\* torchaudio.load(path): (channels, samples) tensor and the file's sample rate.
AudioFile(path) ==
    CASE path = "a.wav" -> [shape |-> <<1, 1920>>, rate |-> 24000,
                            codes |-> <<>>, key |-> <<>>,
                            ops |-> <<<<"load", 1, 0>>>>]
      [] OTHER          -> [shape |-> <<2, 4000>>, rate |-> 48000,
                            codes |-> <<>>, key |-> <<>>,
                            ops |-> <<<<"load", 2, 0>>>>]

(***************************************************************************)
(* runtime.py: CsmRuntime._build_context                                   *)
(***************************************************************************)
\* audio.mean(dim=0): the channel dimension is averaged away.
MeanDim0(w) == [w EXCEPT !.shape = Tail(@), !.ops = Append(@, <<"mean", 0, 0>>)]

\* One descriptor to a Segment: load, downmix, resample when the rates differ.
BuildSegment(d, engine_rate) ==
    LET loaded == AudioFile(d.audio_path)
        mono   == MeanDim0(loaded)
        audio  == IF loaded.rate # engine_rate
                  THEN Resample(mono, loaded.rate, engine_rate)
                  ELSE mono
    IN  [speaker |-> d.speaker, text |-> d.text, audio |-> audio]

BuildContext(descs, engine_rate) ==
    [i \in 1..Len(descs) |-> BuildSegment(descs[i], engine_rate)]

(***************************************************************************)
(* generator.py: the tokenization subsystem.  A tokenized tensor pair is   *)
(* [tokens |-> rows, mask |-> rows], every row RowWidth wide.              *)
(***************************************************************************)
\* f"[{speaker}]{text}"
FormatText(text, speaker) == "[" \o ToString(speaker) \o "]" \o text

\* _tokenize_text_segment with the whole mask row set, not only its last slot.
TokenizeTextSegmentMaskAll(text, speaker) ==
    LET text_tokens == TextEncode(FormatText(text, speaker))
    IN  [tokens |-> [i \in 1..Len(text_tokens) |->
                        [j \in 1..RowWidth |-> IF j = RowWidth THEN text_tokens[i] ELSE 0]],
         mask   |-> [i \in 1..Len(text_tokens) |->
                        [j \in 1..RowWidth |-> TRUE]]]

\* Generator._tokenize_text_segment
TokenizeTextSegment(text, speaker) ==
    LET text_tokens == TextEncode(FormatText(text, speaker))
    IN  [tokens |-> [i \in 1..Len(text_tokens) |->
                        [j \in 1..RowWidth |-> IF j = RowWidth THEN text_tokens[i] ELSE 0]],
         mask   |-> [i \in 1..Len(text_tokens) |->
                        [j \in 1..RowWidth |-> j = RowWidth]]]

\* _tokenize_audio without the end-of-segment frame: the codec's F frames only.
TokenizeAudioNoEos(audio, rate) ==
    LET enc == MimiEncode(audio, rate)
        F   == Len(enc[1])
    IN  [tokens |-> [i \in 1..F |->
                        [j \in 1..RowWidth |-> IF j < RowWidth THEN enc[j][i] ELSE 0]],
         mask   |-> [i \in 1..F |->
                        [j \in 1..RowWidth |-> j < RowWidth]]]

\* Generator._tokenize_audio
TokenizeAudio(audio, rate) ==
    LET enc == MimiEncode(audio, rate)
        F   == Len(enc[1])
        \* torch.cat([audio_tokens, eos_frame], dim=1)
        audio_tokens == [k \in 1..K |-> Append(enc[k], 0)]
    IN  [tokens |-> [i \in 1..(F + 1) |->
                        [j \in 1..RowWidth |-> IF j < RowWidth THEN audio_tokens[j][i] ELSE 0]],
         mask   |-> [i \in 1..(F + 1) |->
                        [j \in 1..RowWidth |-> j < RowWidth]]]

\* Generator._tokenize_segment
TokenizeSegment(segment, rate) ==
    LET t == TokenizeTextSegment(segment.text, segment.speaker)
        a == TokenizeAudio(segment.audio, rate)
    IN  [tokens |-> t.tokens \o a.tokens, mask |-> t.mask \o a.mask]

\* The prompt with the target's text frames put first, before the context.
AssemblePromptTargetFirst(text, speaker, context, rate) ==
    LET segs == [i \in 1..Len(context) |-> TokenizeSegment(context[i], rate)]
        gen  == TokenizeTextSegment(text, speaker)
        all  == <<gen>> \o segs
    IN  [tokens |-> Concat([i \in 1..Len(all) |-> all[i].tokens]),
         mask   |-> Concat([i \in 1..Len(all) |-> all[i].mask])]

\* Generator.generate, lines 103-115: the context segments in order, then the target text.
AssemblePrompt(text, speaker, context, rate) ==
    LET segs == [i \in 1..Len(context) |-> TokenizeSegment(context[i], rate)]
        gen  == TokenizeTextSegment(text, speaker)
        all  == Append(segs, gen)
    IN  [tokens |-> Concat([i \in 1..Len(all) |-> all[i].tokens]),
         mask   |-> Concat([i \in 1..Len(all) |-> all[i].mask])]

(***************************************************************************)
(* The model capability (Model.generate_frame, Model.reset_caches): a      *)
(* deterministic stand-in.  Its cache is the sequence of timesteps written *)
(* since the last reset; its next frame is a function of the cache         *)
(* contents (tokens, masks, positions) and of temperature and topk.  It    *)
(* emits `n` non-zero frames after a prompt and then the all-zero frame.   *)
(* The fields `by` and `stale` of a cache entry are bookkeeping of the     *)
(* verification (who wrote the entry; whether a later call has begun       *)
(* since) and are never read by the stand-in.                              *)
(***************************************************************************)
\* Model.reset_caches(): the cache is emptied.
ResetCaches(c) == <<>>

\* The cache after the window's timesteps have been written to it by `who`.
CacheWrite(c, tokens, mask, pos, who) ==
    c \o [i \in 1..Len(tokens) |->
            [tokens |-> tokens[i], mask |-> mask[i], pos |-> pos[i],
             by |-> who, stale |-> FALSE]]

\* The number of audio timesteps at the end of the cache, after the last text timestep.
RECURSIVE TrailingAudio(_)
TrailingAudio(c) ==
    IF c = <<>> \/ c[Len(c)].mask[RowWidth] THEN 0
    ELSE 1 + TrailingAudio(SubSeq(c, 1, Len(c) - 1))

\* Whether the stand-in raises instead of sampling: with failAt = f > 0 it raises
\* at its f-th invocation after a prompt, and with failAt = 0 it never raises.
ModelRaises(c, failAt) == failAt > 0 /\ TrailingAudio(c) = failAt - 1

\* The frame the stand-in samples from a cache: (1, K) audio-codebook values.
ModelFrame(c, temperature, topk, n) ==
    IF TrailingAudio(c) >= n
    THEN [k \in 1..K |-> 0]
    ELSE [k \in 1..K |->
            CASE k = 1 -> 1 + ((Len(c) + topk) % 3)
              [] k = 2 -> c[Len(c)].pos % 2
              [] k = 3 -> temperature % 2
              [] OTHER -> 0]

(***************************************************************************)
(* watermarking.py: watermark                                              *)
(***************************************************************************)
\* watermark without line 19: the audio is embedded at the engine's rate.
WatermarkAtEngineRate(audio_array, sample_rate, watermark_key) ==
    LET encoded == EncodeWav(audio_array, EmbeddingRate, watermark_key)
        output_sample_rate == Min(EmbeddingRate, sample_rate)
    IN  [audio |-> Resample(encoded, EmbeddingRate, output_sample_rate),
         rate  |-> output_sample_rate]

Watermark(audio_array, sample_rate, watermark_key) ==
    LET audio_array_44khz == Resample(audio_array, sample_rate, EmbeddingRate)
        encoded == EncodeWav(audio_array_44khz, EmbeddingRate, watermark_key)
        output_sample_rate == Min(EmbeddingRate, sample_rate)
    IN  [audio |-> Resample(encoded, EmbeddingRate, output_sample_rate),
         rate  |-> output_sample_rate]

(***************************************************************************)
(* generator.py: Generator.generate, the pieces of the decoding loop.      *)
(***************************************************************************)
\* The quotient rounded up instead of truncated.
MaxGenerationLenCeil(max_audio_length_ms) == TruncDiv(max_audio_length_ms + FrameMs - 1, FrameMs)

\* max_generation_len = int(max_audio_length_ms / 80)
MaxGenerationLen(max_audio_length_ms) == TruncDiv(max_audio_length_ms, FrameMs)

\* The guard bound capped at max_seq_len: a negative budget widens nothing.
GuardRejectsCapped(prompt_len, max_generation_len) ==
    prompt_len >= max_seq_len - (IF max_generation_len > 0 THEN max_generation_len ELSE 0)

\* The guard left out: every prompt passes.
GuardRejectsNever(prompt_len, max_generation_len) == FALSE

\* The guard with > for >=: a prompt of exactly max_context_len rows passes.
GuardRejectsStrict(prompt_len, max_generation_len) ==
    prompt_len > max_seq_len - max_generation_len

\* if curr_tokens.size(1) >= max_context_len: raise ValueError
GuardRejects(prompt_len, max_generation_len) ==
    prompt_len >= max_seq_len - max_generation_len

\* The loop running one iteration too many: range(max_generation_len + 1).
LoopContinuesInclusive(done, max_generation_len) == done <= max_generation_len

\* The loop running one iteration too few: range(max_generation_len - 1).
LoopContinuesShort(done, max_generation_len) == done < max_generation_len - 1

\* for _ in range(max_generation_len): another iteration runs after `done` of them.
LoopContinues(done, max_generation_len) == done < max_generation_len

\* generate_frame wrapped in a handler that swallows the error and leaves the loop.
OnModelRaiseSwallowed == "post"

\* An exception of generate_frame meets no try/except in Generator.generate nor
\* in CsmRuntime.generate: the call ends there and the caller gets the exception.
OnModelRaise == "failed"

\* The stop test left out: no frame stops the loop.
IsStopFrameNever(sample) == FALSE

\* The stop test with any for all: a frame holding some zero stops the loop.
IsStopFrameAny(sample) == \E k \in 1..K : sample[k] = 0

\* torch.all(sample == 0)
IsStopFrame(sample) == \A k \in 1..K : sample[k] = 0

\* The sampling parameters replaced by the defaults of generate's signature.
FrameArgsDefault(a) == [temperature |-> 9, topk |-> 50]

\* Line 130: temperature and topk are generate's own parameters, passed as they are.
FrameArgs(a) == [temperature |-> a.temperature, topk |-> a.topk]

\* The shape of a token or mask window: prompt.unsqueeze(0) (lines 118-119) and
\* cat([...], dim=1).unsqueeze(1) (lines 136-143) are (1, timesteps, K + 1).
WindowShape(rows) == <<1, Len(rows), RowWidth>>

\* The shape of the positions: arange(0, P).unsqueeze(0) (line 120) and
\* curr_pos[:, -1:] + 1 (line 144) are (1, timesteps).
PosShape(pos) == <<1, Len(pos)>>

\* What one generate_frame invocation receives, as far as its shape goes.
Invocation(tokens, mask, pos, fa) ==
    [tokens |-> WindowShape(tokens), mask |-> WindowShape(mask), pos |-> PosShape(pos),
     temperature |-> fa.temperature, topk |-> fa.topk]

\* The break placed after the append: the stop frame joins the accepted frames.
AcceptedOnStopAppended(samples, sample) == Append(samples, sample)

\* if torch.all(sample == 0): break -- the accepted frames as the break leaves them.
AcceptedOnStop(samples, sample) == samples

\* The frame put at the head of the list instead of its end.
AcceptFramePrepend(samples, sample) == <<sample>> \o samples

\* samples.append(sample)
AcceptFrame(samples, sample) == Append(samples, sample)

\* torch.cat([sample, zeros(1, 1)], dim=1).unsqueeze(1): one row, text slot 0.
NextTokens(sample) == << [j \in 1..RowWidth |-> IF j <= K THEN sample[j] ELSE 0] >>

\* The mask with the text slot marked valid too: ones over all K + 1 slots.
NextMaskAllTrue(sample) == << [j \in 1..RowWidth |-> TRUE] >>

\* torch.cat([ones_like(sample), zeros(1, 1)], dim=1).unsqueeze(1)
NextMask(sample) == << [j \in 1..RowWidth |-> j <= K] >>

\* The position carried over without the increment: curr_pos[:, -1:].
NextPosStuck(curr_pos) == << curr_pos[Len(curr_pos)] >>

\* curr_pos[:, -1:] + 1
NextPos(curr_pos) == << curr_pos[Len(curr_pos)] + 1 >>

\* torch.stack(samples).permute(1, 2, 0): the K x T matrix, column t the t-th sample.
StackPermute(samples) == [k \in 1..K |-> [t \in 1..Len(samples) |-> samples[t][k]]]

\* self._watermarker = load_watermarker(device) if load_watermark else None
LoadWatermarker(load_watermark) == IF load_watermark THEN "silentcipher" ELSE "None"

\* The watermark branch taken whatever the engine was constructed with.
HasWatermarkerAlways(watermarker) == TRUE

\* if self._watermarker is not None
HasWatermarker(watermarker) == watermarker # "None"

\* Line 159 left out: the watermark's output is returned as it is.
FinalResampleDropped(audio, wm_sample_rate, sample_rate) == audio

\* Line 159: resample(audio, orig_freq=wm_sample_rate, new_freq=self.sample_rate)
FinalResample(audio, wm_sample_rate, sample_rate) ==
    Resample(audio, wm_sample_rate, sample_rate)

\* Lines 149-150: decode(stack(samples).permute(1, 2, 0)).squeeze(0).squeeze(0)
DecodedAudio(samples, sample_rate) ==
    [MimiDecode(StackPermute(samples), sample_rate) EXCEPT !.shape = Squeeze0(Squeeze0(@))]

\* The stages of watermark() that can raise: the resample of line 19, encode_wav
\* of line 20, the resample of line 23.
WmStages == {"upsample", "embed", "downsample"}

\* The stage of watermark() that raises in a call with these accepted frames on an
\* engine whose faulty stage is `stage`, or "none": watermark() is reached only
\* with frames and a watermarker.
WatermarkFault(samples, watermarker, stage) ==
    IF /\ samples # <<>>
       /\ HasWatermarker(watermarker)
       /\ stage \in WmStages
       /\ Len(samples) >= WmFailFrames
    THEN stage
    ELSE "none"

\* The embedder and resampler invocations made by watermark() before `stage` raised.
FaultEmbeds(stage) == IF stage = "upsample" THEN 0 ELSE 1
FaultResamples(stage) == IF stage = "downsample" THEN 2 ELSE 1

\* The exception of watermark() caught and the decoded waveform returned instead.
AfterWatermarkRaiseFallback(decoded) ==
    [pc |-> "ret", audio |-> decoded, status |-> "none"]

\* Lines 152-159 have no try/except, nor has CsmRuntime.generate: an exception of
\* watermark() ends the call, and the decoded waveform is dropped with the frame.
AfterWatermarkRaise(decoded) ==
    [pc |-> "failed", audio |-> NoTensor, status |-> "WatermarkError"]

\* Lines 146-147 left out: an empty list of samples is decoded like any other.
PostProcessDecodeEmpty(samples, watermarker, sample_rate) ==
    LET audio == DecodedAudio(samples, sample_rate)
    IN  IF HasWatermarker(watermarker)
        THEN LET wm == Watermark(audio, sample_rate, CSM_1B_GH_WATERMARK)
             IN  [audio |-> FinalResample(wm.audio, wm.rate, sample_rate),
                  decode |-> 1, embed |-> 1, resample |-> 3]
        ELSE [audio |-> audio, decode |-> 1, embed |-> 0, resample |-> 0]

\* Lines 146-161: the waveform generate returns for the accepted samples, and the
\* collaborator invocations made on the way (the watermark path resamples three
\* times: twice inside watermark, once on line 159).
PostProcess(samples, watermarker, sample_rate) ==
    IF samples = <<>>
    THEN [audio |-> Zeros(0), decode |-> 0, embed |-> 0, resample |-> 0]
    ELSE LET audio_tokens == StackPermute(samples)
             decoded == MimiDecode(audio_tokens, sample_rate)
             audio   == [decoded EXCEPT !.shape = Squeeze0(Squeeze0(@))]
         IN  IF HasWatermarker(watermarker)
             THEN LET wm == Watermark(audio, sample_rate, CSM_1B_GH_WATERMARK)
                  IN  [audio |-> FinalResample(wm.audio, wm.rate, sample_rate),
                       decode |-> 1, embed |-> 1, resample |-> 3]
             ELSE [audio |-> audio, decode |-> 1, embed |-> 0, resample |-> 0]

(***************************************************************************)
(* runtime.py: CsmRuntime.generate, lines 79-84.                           *)
(***************************************************************************)
\* The rate reported being the watermark's output rate, min(44100, sample_rate).
RuntimeResultWatermarkRate(audio, runtime_sample_rate) ==
    [status |-> "ok",
     audio |-> IF Ndim(audio) = 0 THEN Zeros(1) ELSE audio,
     sample_rate |-> Min(EmbeddingRate, runtime_sample_rate)]

\* The placeholder put in for an empty tensor, not only for a 0-dim one.
RuntimeResultPlaceholder(audio, runtime_sample_rate) ==
    [status |-> "ok",
     audio |-> IF Ndim(audio) = 0 \/ NumSamples(audio) = 0 THEN Zeros(1) ELSE audio,
     sample_rate |-> runtime_sample_rate]

RuntimeResult(audio, runtime_sample_rate) ==
    [status |-> "ok",
     audio |-> IF Ndim(audio) = 0 THEN Zeros(1) ELSE audio,
     sample_rate |-> runtime_sample_rate]

(***************************************************************************)
(* The inputs of the model.                                                *)
(***************************************************************************)
\* (load_watermark, the codec's sample rate) of an engine instance.
Engines == { <<FALSE, 24000>>, <<TRUE, 24000>>, <<TRUE, 48000>> }

SegA == [speaker |-> 0, text |-> "Hi", audio_path |-> "a.wav"]
SegB == [speaker |-> 1, text |-> "Bye now", audio_path |-> "b.wav"]

\* Length budgets, in ms: negative, below one frame, one frame, MaxBudgetFrames
\* frames, and one so large that only prompts under BoundaryLen rows pass the guard.
Budgets == { -FrameMs, 1 - FrameMs, FrameMs - 1, FrameMs, FrameMs * MaxBudgetFrames,
             FrameMs * (max_seq_len - BoundaryLen) + FrameMs - 1 }

Inputs ==
    \* a 4-row prompt under every budget
    [text : {"Hi"}, speaker : {0}, context : {<<>>},
     max_audio_length_ms : Budgets, temperature : {9}, topk : {50}]
  \cup
    \* a 5-row prompt: exactly BoundaryLen rows under the large budget
    [text : {"Bye now"}, speaker : {0}, context : {<<>>},
     max_audio_length_ms : {FrameMs * MaxBudgetFrames, FrameMs * (max_seq_len - BoundaryLen)},
     temperature : {9}, topk : {1}]
  \cup
    \* prompts with one and with two context segments
    [text : {"Hi"}, speaker : {1}, context : {<<SegA>>, <<SegB, SegA>>},
     max_audio_length_ms : {FrameMs * MaxBudgetFrames}, temperature : {7}, topk : {50}]

\* The calls two threads make at the same time on one engine.
ConcInputs ==
    [text : {"Hi"}, speaker : {0}, context : {<<>>},
     max_audio_length_ms : {FrameMs - 1, FrameMs * MaxBudgetFrames,
                            FrameMs * (max_seq_len - BoundaryLen + 1)},
     temperature : {9}, topk : {50}]

\* Calls whose text alone fills the model's context: prompts of
\* max_seq_len - BoundaryLen + 2, + 4 and + 6 rows, under budgets of no frame,
\* of a negative number of frames and of a few frames.
LongInputs ==
    [text : {"Long", "Longer", "Longest"}, speaker : {0}, context : {<<>>},
     max_audio_length_ms : {-2 * FrameMs, 1 - FrameMs, 0, FrameMs - 1,
                            FrameMs * MaxBudgetFrames, FrameMs * (MaxBudgetFrames + 1)},
     temperature : {9}, topk : {50}]

\* The stand-in models <<n, f>>: those that stop after n frames and never raise,
\* and those that raise at invocation f before any stop.
Models == {<<n, 0>> : n \in 0..MaxFrames} \cup {<<MaxFrames, f>> : f \in 1..MaxFailAt}

NoArgs == [text |-> "", speaker |-> 0, context |-> <<>>,
           max_audio_length_ms |-> 0, temperature |-> 0, topk |-> 0]
NoResult == [status |-> "none", audio |-> NoTensor, sample_rate |-> 0]
NoCalls == [reset |-> 0, frame |-> 0, raised |-> 0, encode |-> 0, decode |-> 0,
            embed |-> 0, resample |-> 0, fed |-> <<>>]

(***************************************************************************)
(* State.                                                                  *)
(***************************************************************************)
VARIABLES
    sample_rate,        \* Generator.sample_rate = mimi.sample_rate
    watermarker,        \* Generator._watermarker: "None" or the loaded embedder
    modelStop,          \* the stand-in model's n: non-zero frames before it stops
    modelFailAt,        \* the stand-in model's f: the invocation that raises (0: none)
    wmFailStage,        \* the stage of watermark() that raises on this engine, or "none"
    cache,              \* the model's cache (shared by every call on the engine)
    pc,                 \* each thread's position in CsmRuntime.generate
    args,               \* the arguments of the thread's call
    segments,           \* the Segment list _build_context built for the call
    max_generation_len, \* local of Generator.generate
    curr_tokens,        \* local: the token window fed to the next generate_frame
    curr_tokens_mask,   \* local: its mask
    curr_pos,           \* local: its positions
    samples,            \* local: the accepted frames
    iter,               \* the iterations of `for _ in range(max_generation_len)` done
    stop,               \* why the loop ended: "none", "model" or "length"
    audio,              \* what Generator.generate returned
    result,             \* what CsmRuntime.generate returned or raised
    calls,              \* collaborator invocations made by the thread's call
    foreign,            \* another call used the cache since this call's reset
    serial,             \* no call has begun while another was in flight
    prev                \* the arguments and the result of the last finished call

engineVars == <<sample_rate, watermarker, modelStop, modelFailAt, wmFailStage>>
localVars == <<max_generation_len, curr_tokens, curr_tokens_mask, curr_pos, samples,
               iter, stop>>
vars == <<sample_rate, watermarker, modelStop, modelFailAt, wmFailStage, cache, pc, args, segments,
          max_generation_len, curr_tokens, curr_tokens_mask, curr_pos, samples,
          iter, stop, audio, result, calls, foreign, serial, prev>>

InFlight == {c \in Callers : pc[c] # "idle"}

\* The threads whose call is between its reset_caches and its last generate_frame.
InWindow == {c \in Callers : pc[c] \in {"assemble", "loop"}}

\* No call has been made yet.
InitCalls ==
    /\ cache = <<>>
    /\ pc = [c \in Callers |-> "idle"]
    /\ args = [c \in Callers |-> NoArgs]
    /\ segments = [c \in Callers |-> <<>>]
    /\ max_generation_len = [c \in Callers |-> 0]
    /\ curr_tokens = [c \in Callers |-> <<>>]
    /\ curr_tokens_mask = [c \in Callers |-> <<>>]
    /\ curr_pos = [c \in Callers |-> <<>>]
    /\ samples = [c \in Callers |-> <<>>]
    /\ iter = [c \in Callers |-> 0]
    /\ stop = [c \in Callers |-> "none"]
    /\ audio = [c \in Callers |-> NoTensor]
    /\ result = [c \in Callers |-> NoResult]
    /\ calls = [c \in Callers |-> NoCalls]
    /\ foreign = [c \in Callers |-> FALSE]
    /\ serial = TRUE
    /\ prev = [args |-> NoArgs, result |-> NoResult]

\* An engine whose watermark collaborators never raise.
Init ==
    /\ \E e \in Engines :
          /\ watermarker = LoadWatermarker(e[1])
          /\ sample_rate = e[2]
    /\ \E m \in Models :
          /\ modelStop = m[1]
          /\ modelFailAt = m[2]
    /\ wmFailStage = "none"
    /\ InitCalls

(***************************************************************************)
(* Actions: one per step of a thread's CsmRuntime.generate call.  The      *)
(* steps are cut where the call uses the engine's shared model cache.      *)
(***************************************************************************)
\* Every thread inside a window other than c has now seen a foreign cache use.
Intrude(c) == [d \in Callers |-> IF d # c /\ d \in InWindow THEN TRUE ELSE foreign[d]]

\* runtime.py 59-70: the call is entered and _build_context builds its segments;
\* Generator.generate is then invoked.
Call(c, a) ==
    /\ pc[c] = "idle"
    /\ pc' = [pc EXCEPT ![c] = "entry"]
    /\ args' = [args EXCEPT ![c] = a]
    /\ segments' = [segments EXCEPT ![c] = BuildContext(a.context, sample_rate)]
    /\ calls' = [calls EXCEPT ![c] = NoCalls]
    /\ cache' = [i \in 1..Len(cache) |-> [cache[i] EXCEPT !.stale = TRUE]]
    /\ serial' = (serial /\ InFlight = {})
    /\ UNCHANGED <<engineVars, localVars, audio, result, foreign, prev>>

\* A call made while no other call is in flight on the engine.
CallSerial(c) == InFlight = {} /\ \E a \in Inputs : Call(c, a)

\* A call made whatever the other thread is doing: the engine has no lock.  The
\* scenario is bounded: the first two calls may overlap, and calls made after a
\* result has been delivered follow one another while no overlap has happened.
CallConcurrent(c) ==
    /\ serial
    /\ InFlight = {} \/ prev.result.status = "none"
    /\ \E a \in ConcInputs : Call(c, a)

\* Line 100 left out: generate goes on with the cache as the last call left it.
ResetOmitted(c) ==
    /\ pc[c] = "entry"
    /\ foreign' = [foreign EXCEPT ![c] = FALSE]
    /\ pc' = [pc EXCEPT ![c] = "assemble"]
    /\ UNCHANGED <<engineVars, cache, calls, args, segments, localVars, audio, result,
                   serial, prev>>

\* generator.py 100: self._model.reset_caches()
Reset(c) ==
    /\ pc[c] = "entry"
    /\ cache' = ResetCaches(cache)
    /\ calls' = [calls EXCEPT ![c].reset = @ + 1]
    /\ foreign' = [Intrude(c) EXCEPT ![c] = FALSE]
    /\ pc' = [pc EXCEPT ![c] = "assemble"]
    /\ UNCHANGED <<engineVars, args, segments, localVars, audio, result, serial, prev>>

\* generator.py 102-127: the length budget, the prompt, the loop's locals, the guard.
Assemble(c) ==
    /\ pc[c] = "assemble"
    /\ LET a == args[c]
           mgl == MaxGenerationLen(a.max_audio_length_ms)
           prompt == AssemblePrompt(a.text, a.speaker, segments[c], sample_rate)
           P == Len(prompt.tokens)
       IN  /\ max_generation_len' = [max_generation_len EXCEPT ![c] = mgl]
           /\ calls' = [calls EXCEPT ![c].encode = @ + Len(segments[c])]
           /\ samples' = [samples EXCEPT ![c] = <<>>]
           /\ curr_tokens' = [curr_tokens EXCEPT ![c] = prompt.tokens]
           /\ curr_tokens_mask' = [curr_tokens_mask EXCEPT ![c] = prompt.mask]
           /\ curr_pos' = [curr_pos EXCEPT ![c] = [i \in 1..P |-> i - 1]]
           /\ IF GuardRejects(P, mgl)
              THEN /\ pc' = [pc EXCEPT ![c] = "failed"]
                   /\ result' = [result EXCEPT ![c] = [NoResult EXCEPT !.status = "ValueError"]]
                   /\ stop' = stop
              ELSE /\ pc' = [pc EXCEPT ![c] = IF LoopContinues(0, mgl) THEN "loop" ELSE "post"]
                   /\ result' = result
                   /\ stop' = [stop EXCEPT ![c] = IF LoopContinues(0, mgl) THEN "none" ELSE "length"]
    /\ UNCHANGED <<engineVars, cache, args, segments, iter, audio, foreign, serial, prev>>

\* generator.py 129-144: one iteration of the decoding loop.
Step(c) ==
    /\ pc[c] = "loop"
    /\ LET cache1 == CacheWrite(cache, curr_tokens[c], curr_tokens_mask[c], curr_pos[c], c)
           fa     == FrameArgs(args[c])
           sample == ModelFrame(cache1, fa.temperature, fa.topk, modelStop)
           inv    == Invocation(curr_tokens[c], curr_tokens_mask[c], curr_pos[c], fa)
       IN  /\ cache' = cache1
           /\ foreign' = Intrude(c)
           /\ IF ModelRaises(cache1, modelFailAt)
              THEN /\ calls' = [calls EXCEPT ![c].frame = @ + 1, ![c].raised = @ + 1,
                                             ![c].fed = Append(@, inv)]
                   /\ pc' = [pc EXCEPT ![c] = OnModelRaise]
                   /\ result' = [result EXCEPT ![c] =
                                    IF OnModelRaise = "failed"
                                    THEN [NoResult EXCEPT !.status = "ModelError"]
                                    ELSE @]
                   /\ UNCHANGED <<samples, curr_tokens, curr_tokens_mask, curr_pos,
                                  iter, stop>>
              ELSE /\ calls' = [calls EXCEPT ![c].frame = @ + 1,
                                             ![c].fed = Append(@, inv)]
                   /\ result' = result
                   /\ IF IsStopFrame(sample)
                      THEN /\ pc' = [pc EXCEPT ![c] = "post"]
                           /\ stop' = [stop EXCEPT ![c] = "model"]
                           /\ samples' = [samples EXCEPT ![c] = AcceptedOnStop(@, sample)]
                           /\ UNCHANGED <<curr_tokens, curr_tokens_mask, curr_pos, iter>>
                      ELSE /\ samples' = [samples EXCEPT ![c] = AcceptFrame(@, sample)]
                           /\ curr_tokens' = [curr_tokens EXCEPT ![c] = NextTokens(sample)]
                           /\ curr_tokens_mask' = [curr_tokens_mask EXCEPT ![c] = NextMask(sample)]
                           /\ curr_pos' = [curr_pos EXCEPT ![c] = NextPos(@)]
                           /\ iter' = [iter EXCEPT ![c] = @ + 1]
                           /\ IF LoopContinues(iter[c] + 1, max_generation_len[c])
                              THEN /\ pc' = pc
                                   /\ stop' = stop
                              ELSE /\ pc' = [pc EXCEPT ![c] = "post"]
                                   /\ stop' = [stop EXCEPT ![c] = "length"]
    /\ UNCHANGED <<engineVars, args, segments, max_generation_len, audio, serial, prev>>

\* generator.py 146-161: decode, watermark, return to CsmRuntime.generate.
Post(c) ==
    /\ pc[c] = "post"
    /\ LET r == PostProcess(samples[c], watermarker, sample_rate)
           fault == WatermarkFault(samples[c], watermarker, wmFailStage)
           after == AfterWatermarkRaise(DecodedAudio(samples[c], sample_rate))
       IN  IF fault # "none"
           THEN /\ audio' = [audio EXCEPT ![c] = after.audio]
                /\ pc' = [pc EXCEPT ![c] = after.pc]
                /\ result' = [result EXCEPT ![c] = [NoResult EXCEPT !.status = after.status]]
                /\ calls' = [calls EXCEPT ![c].decode = @ + 1,
                                          ![c].embed = @ + FaultEmbeds(fault),
                                          ![c].resample = @ + FaultResamples(fault)]
           ELSE /\ audio' = [audio EXCEPT ![c] = r.audio]
                /\ pc' = [pc EXCEPT ![c] = "ret"]
                /\ result' = result
                /\ calls' = [calls EXCEPT ![c].decode = @ + r.decode,
                                          ![c].embed = @ + r.embed,
                                          ![c].resample = @ + r.resample]
    /\ UNCHANGED <<engineVars, cache, args, segments, localVars, foreign, serial, prev>>

\* runtime.py 79-84: the result dictionary.
RuntimeReturn(c) ==
    /\ pc[c] = "ret"
    /\ result' = [result EXCEPT ![c] = RuntimeResult(audio[c], sample_rate)]
    /\ pc' = [pc EXCEPT ![c] = "done"]
    /\ UNCHANGED <<engineVars, cache, args, segments, localVars, audio, calls,
                   foreign, serial, prev>>

\* The caller has the result (or the error); the call's locals are gone.
Finish(c) ==
    /\ pc[c] \in {"done", "failed"}
    /\ prev' = [args |-> args[c], result |-> result[c]]
    /\ pc' = [pc EXCEPT ![c] = "idle"]
    /\ args' = [args EXCEPT ![c] = NoArgs]
    /\ segments' = [segments EXCEPT ![c] = <<>>]
    /\ max_generation_len' = [max_generation_len EXCEPT ![c] = 0]
    /\ curr_tokens' = [curr_tokens EXCEPT ![c] = <<>>]
    /\ curr_tokens_mask' = [curr_tokens_mask EXCEPT ![c] = <<>>]
    /\ curr_pos' = [curr_pos EXCEPT ![c] = <<>>]
    /\ samples' = [samples EXCEPT ![c] = <<>>]
    /\ iter' = [iter EXCEPT ![c] = 0]
    /\ stop' = [stop EXCEPT ![c] = "none"]
    /\ audio' = [audio EXCEPT ![c] = NoTensor]
    /\ result' = [result EXCEPT ![c] = NoResult]
    /\ calls' = [calls EXCEPT ![c] = NoCalls]
    /\ foreign' = [foreign EXCEPT ![c] = FALSE]
    /\ UNCHANGED <<engineVars, cache, serial>>

\* The steps of a call that is in flight.
Run(c) ==
    \/ Reset(c)
    \/ Assemble(c)
    \/ Step(c)
    \/ Post(c)
    \/ RuntimeReturn(c)
    \/ Finish(c)

\* Calls serialized by the caller: one call at a time on the engine.
Next == \E c \in Callers : CallSerial(c) \/ Run(c)

Spec == Init /\ [][Next]_vars

\* Two threads calling the engine with no serialization in front of it.
NextConcurrent == \E c \in Callers : CallConcurrent(c) \/ Run(c)

SpecConcurrent == Init /\ [][NextConcurrent]_vars

\* Calls on engines that watermark and whose collaborators may raise: a model that
\* raises at an invocation, a stage of watermark() that raises on longer waveforms.
FaultInputs ==
    [text : {"Hi"}, speaker : {0}, context : {<<>>},
     max_audio_length_ms : {0, FrameMs, FrameMs * WmFailFrames},
     temperature : {9}, topk : {50}]
  \cup
    [text : {"Bye now"}, speaker : {0}, context : {<<>>},
     max_audio_length_ms : {FrameMs * (max_seq_len - BoundaryLen)},
     temperature : {9}, topk : {50}]

InitFaulty ==
    /\ \E e \in {x \in Engines : x[1]} :
          /\ watermarker = LoadWatermarker(e[1])
          /\ sample_rate = e[2]
    /\ \E m \in Models :
          /\ modelStop = m[1]
          /\ modelFailAt = m[2]
    /\ wmFailStage \in WmStages \cup {"none"}
    /\ InitCalls

CallFaulty(c) == InFlight = {} /\ \E a \in FaultInputs : Call(c, a)

NextFaulty == \E c \in Callers : CallFaulty(c) \/ Run(c)

SpecFaulty == InitFaulty /\ [][NextFaulty]_vars

\* One call with a long text, by thread 1, on an engine without watermarker.
InitLong ==
    /\ Init
    /\ watermarker = LoadWatermarker(FALSE)
    /\ sample_rate = 24000

CallLong(c) ==
    /\ c = 1
    /\ InFlight = {}
    /\ prev.result.status = "none"
    /\ \E a \in LongInputs : Call(c, a)

NextLong == \E c \in Callers : CallLong(c) \/ Run(c)

SpecLong == InitLong /\ [][NextLong]_vars

(***************************************************************************)
(* Properties.                                                             *)
(***************************************************************************)
\* The calls that have run the guard (lines 122-127).
PastGuard == {c \in Callers : pc[c] \in {"failed", "loop", "post", "ret", "done"}}

\* The calls whose decoding loop has ended without a rejection.
LoopEnded == {c \in Callers : pc[c] \in {"post", "ret", "done"}}

\* The length of the prompt assembled for thread c's call.
PromptLen(c) ==
    Len(AssemblePrompt(args[c].text, args[c].speaker, segments[c], sample_rate).tokens)

Max0(n) == IF n < 0 THEN 0 ELSE n

\* Every one of the K audio values of a frame is the sentinel 0.
AllZero(frame) == \A k \in 1..K : frame[k] = 0

\* C1: a call whose prompt has at least max_seq_len - max_generation_len rows fails
\* with an error, and model.generate_frame has not been invoked in it.
C1_LongPromptRejected ==
    \A c \in PastGuard :
        PromptLen(c) >= 2048 - TruncDiv(args[c].max_audio_length_ms, 80)
        => /\ pc[c] = "failed"
           /\ result[c].status = "ValueError"
           /\ calls[c].frame = 0

\* C1 witness: a rejected call whose prompt is exactly at the boundary.
C1_Witness ==
    \E c \in Callers :
        /\ pc[c] = "failed"
        /\ PromptLen(c) = 2048 - max_generation_len[c]

\* C2 as stated: a call that passes the guard makes at most max_generation_len
\* invocations of generate_frame and accepts at most max_generation_len frames.
C2_AtMostBudget ==
    \A c \in LoopEnded :
        /\ calls[c].frame <= max_generation_len[c]
        /\ Len(samples[c]) <= max_generation_len[c]

\* C2 amended: at most max(0, max_generation_len) invocations and accepted frames
\* (a negative budget passes the guard and runs no iteration); an iteration is
\* pending only while fewer than that many were made; the returned audio is at
\* most that many hops long.
C2_AtMostNonNegativeBudget ==
    \A c \in PastGuard :
        /\ calls[c].frame <= Max0(max_generation_len[c])
        /\ Len(samples[c]) <= Max0(max_generation_len[c])
        /\ Len(samples[c]) <= calls[c].frame
        /\ pc[c] = "loop" => calls[c].frame < max_generation_len[c]
        /\ pc[c] \in {"ret", "done"}
           => NumSamples(audio[c]) <= Max0(max_generation_len[c]) * HopSamples(sample_rate)

\* C2 witness: a loop ended by the length cap with every budgeted frame accepted.
C2_Witness ==
    \E c \in Callers :
        /\ pc[c] = "done"
        /\ stop[c] = "length"
        /\ max_generation_len[c] = MaxBudgetFrames
        /\ Len(samples[c]) = max_generation_len[c]
        /\ NumSamples(result[c].audio) = max_generation_len[c] * HopSamples(sample_rate)

\* C3: when the loop ends with no accepted frame, Generator.generate returns a
\* waveform of length 0 and CsmRuntime.generate returns a buffer of length 0 (no
\* length-1 placeholder) with the sample rate, as a success.
C3_ZeroFramesZeroLength ==
    \A c \in Callers :
        (pc[c] \in {"ret", "done"} /\ samples[c] = <<>>)
        => /\ audio[c].shape = <<0>>
           /\ pc[c] = "done"
              => /\ result[c].status = "ok"
                 /\ result[c].audio.shape = <<0>>
                 /\ result[c].sample_rate = sample_rate

\* C3 witness: the model's first frame was all-zero and the call has returned.
C3_Witness ==
    \E c \in Callers :
        /\ pc[c] = "done"
        /\ stop[c] = "model"
        /\ calls[c].frame = 1
        /\ samples[c] = <<>>

\* C4: a call made right after a call with the same arguments, on the same engine,
\* returns (or raises) exactly what that call did.
C4_SequentialDeterminism ==
    \A c \in Callers :
        (pc[c] \in {"done", "failed"} /\ prev.args = args[c])
        => result[c] = prev.result

\* C4 witness: the second of two identical calls has returned audio of accepted
\* frames, after a first call that wrote several timesteps to the cache.
C4_Witness ==
    \E c \in Callers :
        /\ pc[c] = "done"
        /\ prev.args = args[c]
        /\ Len(samples[c]) >= 2
        /\ NumSamples(prev.result.audio) > 0

\* The t-th frame the stand-in emits in thread c's call, serial calls: the frame
\* sampled from the prompt followed by the t - 1 frames fed back before it.
EmittedFrame(c, t) ==
    ModelFrame(SubSeq(cache, 1, PromptLen(c) + t - 1),
               args[c].temperature, args[c].topk, modelStop)

\* C5: when the model emits n non-zero frames and then the all-zero frame, with
\* n < max_generation_len, the call accepts exactly those n frames in order and
\* invokes generate_frame exactly n + 1 times.
C5_StopAfterN ==
    \A c \in LoopEnded :
        modelStop < max_generation_len[c]
        => /\ Len(samples[c]) = modelStop
           /\ calls[c].frame = modelStop + 1
           /\ \A t \in 1..modelStop :
                 /\ samples[c][t] = EmittedFrame(c, t)
                 /\ \E k \in 1..K : samples[c][t][k] # 0
           /\ \A k \in 1..K : EmittedFrame(c, modelStop + 1)[k] = 0

\* C5 witness: three frames accepted and a fourth invocation that signalled the stop.
C5_Witness ==
    \E c \in Callers :
        /\ pc[c] = "done"
        /\ modelStop = 3
        /\ Len(samples[c]) = 3
        /\ calls[c].frame = 4

\* C6 as stated: no reset_caches or generate_frame of another call executes between
\* a call's reset_caches and a later generate_frame of that call.
C6_NoInterleaving ==
    \A c \in Callers :
        ~(foreign[c] /\ (pc[c] = "loop" \/ calls[c].frame > 0))

\* C6 amended: the engine does not serialize calls; while the caller has started
\* every call after the previous one returned or failed, no other call uses the
\* cache inside a call's window, and every cache entry during and after the window
\* was written by that call since its reset.
C6_SerializedExclusive ==
    serial =>
        \A c \in Callers :
            /\ ~foreign[c]
            /\ pc[c] \in {"assemble", "loop", "post", "ret", "done", "failed"}
               => \A i \in 1..Len(cache) : cache[i].by = c /\ ~cache[i].stale

\* C6 witness: a serialized second call is in its loop, after a call by the other
\* thread that wrote the cache, and has itself written to the cache.
C6_Witness ==
    \E c \in Callers :
        /\ serial
        /\ pc[c] = "loop"
        /\ calls[c].frame >= 1
        /\ prev.result.status = "ok"
        /\ NumSamples(prev.result.audio) > 0

\* C7: every call invokes reset_caches exactly once, before its first
\* generate_frame, and no generate_frame of a call runs against cache entries
\* written before the call began.
C7_ResetOnceFirst ==
    \A c \in Callers :
        /\ pc[c] = "entry" => calls[c].reset = 0 /\ calls[c].frame = 0
        /\ pc[c] \in {"assemble", "loop", "post", "ret", "done", "failed"}
           => calls[c].reset = 1
        /\ pc[c] = "loop" => \A i \in 1..Len(cache) : ~cache[i].stale
        /\ calls[c].frame > 0 => \A i \in 1..Len(cache) : ~cache[i].stale

\* C7 witness: a call is about to invoke generate_frame for the first time, after an
\* earlier call that had left entries in the cache.
C7_Witness ==
    \E c \in Callers :
        /\ pc[c] = "loop"
        /\ calls[c].frame = 0
        /\ calls[c].reset = 1
        /\ cache = <<>>
        /\ prev.result.status = "ok"
        /\ NumSamples(prev.result.audio) > 0

\* C8 as stated: a call rejected by the length guard has done no work before the
\* check: no reset_caches, no generate_frame, no codec encode, no frame generated.
C8_RejectionTouchesNothing ==
    \A c \in Callers :
        (pc[c] = "failed" /\ result[c].status = "ValueError")
        => /\ calls[c].reset = 0
           /\ calls[c].frame = 0
           /\ calls[c].encode = 0
           /\ samples[c] = <<>>

\* C9: with load_watermark=False and at least one accepted frame, generate returns
\* exactly the codec's decode output, the reported sample rate is the engine's, and
\* neither the embedder nor the resampler is invoked by generate.
C9_WatermarkDisabledNoOp ==
    \A c \in Callers :
        (watermarker = "None" /\ pc[c] \in {"ret", "done"} /\ samples[c] # <<>>)
        => /\ audio[c].ops = <<<<"decode", 0, 0>>>>
           /\ audio[c].codes = [k \in 1..32 |-> [t \in 1..Len(samples[c]) |-> samples[c][t][k]]]
           /\ audio[c].shape = <<Len(samples[c]) * HopSamples(sample_rate)>>
           /\ audio[c].rate = sample_rate
           /\ calls[c].decode = 1
           /\ calls[c].embed = 0
           /\ calls[c].resample = 0
           /\ pc[c] = "done"
              => /\ result[c].audio = audio[c]
                 /\ result[c].sample_rate = sample_rate

\* C9 witness: an engine without watermarker has returned the audio of two frames.
C9_Witness ==
    \E c \in Callers :
        /\ watermarker = "None"
        /\ pc[c] = "done"
        /\ Len(samples[c]) = 2
        /\ NumSamples(result[c].audio) = 2 * HopSamples(sample_rate)

HoldsPrompt(c) ==
    \/ pc[c] = "loop" /\ calls[c].frame = 0
    \/ pc[c] = "failed" /\ result[c].status = "ValueError"

\* C11: a segment whose text yields n sub-word tokens and whose audio the codec
\* encodes to F frames is tokenized to n + F + 1 frames and as many mask rows: the
\* n text frames in tokenizer order, the F codec frames in codec order, then one
\* end-of-segment frame whose K audio slots are 0; the first segment's frames
\* open the assembled prompt.
C11_SegmentFrameCount ==
    \A c \in InFlight :
        \A i \in 1..Len(segments[c]) :
            LET seg == segments[c][i]
                ids == TextEncode(FormatText(seg.text, seg.speaker))
                enc == MimiEncode(seg.audio, sample_rate)
                n   == Len(ids)
                F   == Len(enc[1])
                t   == TokenizeSegment(seg, sample_rate)
            IN  /\ F = CeilDiv(NumSamples(seg.audio), HopSamples(sample_rate))
                /\ Len(t.tokens) = n + F + 1
                /\ Len(t.mask) = n + F + 1
                /\ \A r \in 1..n : t.tokens[r][33] = ids[r]
                /\ \A f \in 1..F : \A k \in 1..32 : t.tokens[n + f][k] = enc[k][f]
                /\ \A k \in 1..32 : t.tokens[n + F + 1][k] = 0
                /\ (i = 1 /\ HoldsPrompt(c))
                   => /\ Len(curr_tokens[c]) >= n + F + 1
                      /\ SubSeq(curr_tokens[c], 1, n + F + 1) = t.tokens
                      /\ SubSeq(curr_tokens_mask[c], 1, n + F + 1) = t.mask

\* C11 witness: a prompt that opens with a segment of 3 sub-word tokens (5 text
\* frames with bos and eos) and 2 codec frames: 8 frames.
C11_Witness ==
    \E c \in Callers :
        /\ HoldsPrompt(c)
        /\ Len(segments[c]) = 2
        /\ Len(TokenizeSegment(segments[c][1], sample_rate).tokens) = 5 + 2 + 1
        /\ NumSamples(segments[c][1].audio) > HopSamples(sample_rate)

\* C12: if generate_frame raises at step i of a call, after i - 1 accepted frames,
\* the call fails with that error at once: generate_frame has been invoked exactly
\* i times (no retry), the codec's decode and the embedder are not invoked, and no
\* waveform is returned by Generator.generate nor by CsmRuntime.generate.
C12_ModelFailurePropagates ==
    \A c \in Callers :
        calls[c].raised > 0
        => /\ pc[c] = "failed"
           /\ result[c].status = "ModelError"
           /\ calls[c].raised = 1
           /\ calls[c].frame = modelFailAt
           /\ Len(samples[c]) = modelFailAt - 1
           /\ calls[c].decode = 0
           /\ calls[c].embed = 0
           /\ calls[c].resample = 0
           /\ audio[c] = NoTensor
           /\ result[c].audio = NoTensor

\* C12 witness: the model has raised at its second invocation, after one accepted
\* frame, in a call whose budget allowed a further invocation.
C12_Witness ==
    \E c \in Callers :
        /\ calls[c].raised = 1
        /\ calls[c].frame = 2
        /\ Len(samples[c]) = 1
        /\ max_generation_len[c] > 2
        /\ pc[c] = "failed"

\* C13: when the model returns a non-all-zero frame at each of the
\* max_generation_len >= 1 invocations, the loop makes exactly max_generation_len
\* invocations, accepts max_generation_len frames and ends by the length cap; the
\* call then returns the decoded waveform of those frames and raises nothing.
C13_LengthCapNotAnError ==
    \A c \in LoopEnded :
        (max_generation_len[c] >= 1 /\ modelStop >= max_generation_len[c])
        => /\ calls[c].frame = max_generation_len[c]
           /\ calls[c].raised = 0
           /\ Len(samples[c]) = max_generation_len[c]
           /\ \A t \in 1..Len(samples[c]) : ~AllZero(samples[c][t])
           /\ stop[c] = "length"
           /\ pc[c] \in {"ret", "done"}
              => /\ audio[c].codes = StackPermute(samples[c])
                 /\ NumSamples(audio[c]) >= max_generation_len[c]
           /\ pc[c] = "done"
              => /\ result[c].status = "ok"
                 /\ result[c].audio = audio[c]

\* C13 witness: a call with a budget of 2 frames and a model that would emit 3 has
\* returned a waveform decoded from 2 frames.
C13_Witness ==
    \E c \in Callers :
        /\ pc[c] = "done"
        /\ max_generation_len[c] = 2
        /\ modelStop = 3
        /\ calls[c].frame = 2
        /\ result[c].status = "ok"
        /\ Len(result[c].audio.codes[1]) = 2

\* C14: every call that passes the guard and meets no failure ends its loop in
\* exactly one of the stop states "model" and "length": "model" iff some
\* generate_frame invocation (the max_generation_len-th included) returned an
\* all-zero frame, "length" iff all max_generation_len invocations returned a
\* non-all-zero frame; the all-zero frame, or the max_generation_len-th frame, is
\* the call's last invocation of the model.
C14_StopStateExclusive ==
    \A c \in Callers :
        /\ pc[c] \in {"entry", "assemble", "loop"} => stop[c] = "none"
        /\ c \in LoopEnded =>
              /\ stop[c] \in {"model", "length"}
              /\ stop[c] = "model"
                 <=> \E t \in 1..calls[c].frame : AllZero(EmittedFrame(c, t))
              /\ stop[c] = "length"
                 <=> /\ calls[c].frame = Max0(max_generation_len[c])
                     /\ \A t \in 1..calls[c].frame : ~AllZero(EmittedFrame(c, t))
              /\ stop[c] = "model"
                 => /\ calls[c].frame <= max_generation_len[c]
                    /\ calls[c].frame = Len(samples[c]) + 1
                    /\ \A t \in 1..(calls[c].frame - 1) : ~AllZero(EmittedFrame(c, t))
              /\ stop[c] = "length" => calls[c].frame = Len(samples[c])

\* C14 witness: a call stopped by the model at its max_generation_len-th invocation.
C14_Witness ==
    \E c \in Callers :
        /\ pc[c] = "done"
        /\ stop[c] = "model"
        /\ max_generation_len[c] = 2
        /\ calls[c].frame = 2
        /\ Len(samples[c]) = 1

\* C15: in every state of the decoding loop and after it, no accepted frame has all
\* K audio values equal to 0; the all-zero frame that stops the loop is not
\* appended, so the accepted frames are the model's outputs strictly before its
\* first all-zero output.
C15_StopFrameNeverOutput ==
    \A c \in Callers :
        pc[c] \in {"loop", "post", "ret", "done"}
        => /\ \A t \in 1..Len(samples[c]) :
                 /\ ~AllZero(samples[c][t])
                 /\ samples[c][t] = EmittedFrame(c, t)
           /\ stop[c] = "model"
              => /\ AllZero(EmittedFrame(c, Len(samples[c]) + 1))
                 /\ calls[c].frame = Len(samples[c]) + 1

\* C15 witness: the loop has been stopped by an all-zero third frame with two
\* frames accepted.
C15_Witness ==
    \E c \in Callers :
        /\ pc[c] = "post"
        /\ stop[c] = "model"
        /\ Len(samples[c]) = 2
        /\ calls[c].frame = 3

\* C16: in a call with prompt length P the first generate_frame invocation gets the
\* whole prompt as its window, at positions 0..P-1, and the i-th invocation
\* (i >= 2) gets a window of one frame at the single position P + i - 2; the
\* position advances by 1 per accepted frame, so the positions fed to the model
\* over the call are contiguous and strictly increasing from 0.
C16_PositionBookkeeping ==
    \A c \in Callers :
        LET P == PromptLen(c)
            i == calls[c].frame + 1
        IN  /\ (pc[c] = "loop" /\ i = 1)
               => /\ curr_pos[c] = [j \in 1..P |-> j - 1]
                  /\ Len(curr_tokens[c]) = P
                  /\ Len(curr_tokens_mask[c]) = P
                  /\ cache = <<>>
            /\ (pc[c] = "loop" /\ i >= 2)
               => /\ curr_pos[c] = << P + i - 2 >>
                  /\ Len(curr_tokens[c]) = 1
                  /\ Len(curr_tokens_mask[c]) = 1
                  /\ curr_pos[c][1] = P + Len(samples[c]) - 1
            /\ (pc[c] \in {"loop", "post", "ret", "done"} \/ calls[c].raised > 0)
               => /\ \A j \in 1..Len(cache) : cache[j].pos = j - 1
                  /\ calls[c].frame >= 1 => Len(cache) = P + calls[c].frame - 1

\* C16 witness: the third invocation of a call with a prompt of 4 frames is about
\* to be made, at position 5.
C16_Witness ==
    \E c \in Callers :
        /\ pc[c] = "loop"
        /\ calls[c].frame = 2
        /\ PromptLen(c) = 4
        /\ curr_pos[c] = << 5 >>
        /\ Len(cache) = 5

\* The calls that have passed the guard: in the loop, after it, or failed in it.
Accepted ==
    {c \in Callers : pc[c] \in {"loop", "post", "ret", "done"} \/ calls[c].raised > 0}

\* C17: in every call that passes the guard, every position passed to
\* generate_frame is below max_seq_len (2048), and the timesteps written to the
\* cache in the call (the prompt's and those of the frames fed back) are at most
\* max_seq_len.
C17_CacheCapacity ==
    \A c \in Accepted :
        /\ \A j \in 1..Len(cache) : cache[j].by = c /\ cache[j].pos < 2048
        /\ Len(cache) <= 2048
        /\ pc[c] = "loop"
           => /\ \A j \in 1..Len(curr_pos[c]) : curr_pos[c][j] < 2048
              /\ Len(cache) + Len(curr_tokens[c]) <= 2048
        /\ calls[c].frame >= 1 => Len(cache) = PromptLen(c) + calls[c].frame - 1

\* C17 witness: a call with a prompt two rows short of what the guard rejects under
\* its budget has fed the model its last frame, one position below the prompt's
\* length plus the budget.
C17_Witness ==
    \E c \in Callers :
        /\ pc[c] = "post"
        /\ stop[c] = "length"
        /\ PromptLen(c) = 2048 - max_generation_len[c] - 1
        /\ PromptLen(c) > 2000
        /\ calls[c].frame = max_generation_len[c]
        /\ calls[c].frame >= 2
        /\ cache[Len(cache)].pos = PromptLen(c) + max_generation_len[c] - 2

\* C18: after a frame is accepted, the token window for the next generate_frame
\* invocation is one row of width K + 1 whose first K slots are the accepted
\* frame's values and whose text slot is 0, and the mask window is one row with
\* the K audio slots true and the text slot false; that is what the model is fed.
C18_NextWindowLayout ==
    \A c \in Callers :
        LET T == Len(samples[c])
            P == PromptLen(c)
        IN  (pc[c] \in {"loop", "post", "ret", "done"} /\ T >= 1)
            => /\ Len(curr_tokens[c]) = 1
               /\ Len(curr_tokens_mask[c]) = 1
               /\ DOMAIN curr_tokens[c][1] = 1..(32 + 1)
               /\ DOMAIN curr_tokens_mask[c][1] = 1..(32 + 1)
               /\ \A k \in 1..32 :
                     /\ curr_tokens[c][1][k] = samples[c][T][k]
                     /\ curr_tokens_mask[c][1][k] = TRUE
               /\ curr_tokens[c][1][33] = 0
               /\ curr_tokens_mask[c][1][33] = FALSE
               /\ \A t \in 1..(calls[c].frame - 1) :
                     /\ \A k \in 1..32 :
                           /\ cache[P + t].tokens[k] = samples[c][t][k]
                           /\ cache[P + t].mask[k] = TRUE
                     /\ cache[P + t].tokens[33] = 0
                     /\ cache[P + t].mask[33] = FALSE

\* C18 witness: the window built from the second accepted frame is about to be
\* fed to the model, the first one already was.
C18_Witness ==
    \E c \in Callers :
        /\ pc[c] = "loop"
        /\ Len(samples[c]) = 2
        /\ calls[c].frame = 2
        /\ Len(cache) = PromptLen(c) + 1
        /\ \E k \in 1..32 : curr_tokens[c][1][k] # 0

\* The calls the guard has rejected.
Rejected == {c \in Callers : pc[c] = "failed" /\ result[c].status = "ValueError"}

\* C19 as stated: max_generation_len is max_audio_length_ms / 80 rounded down,
\* whatever the budget.
C19_RoundedDown ==
    \A c \in PastGuard : max_generation_len[c] = args[c].max_audio_length_ms \div 80

\* C19: max_generation_len is max_audio_length_ms / 80 truncated toward zero,
\* which for a non-negative budget is the quotient rounded down; for non-negative
\* budgets the guard rejects a prompt of P rows iff
\* P >= 2048 - floor(max_audio_length_ms / 80), and an accepted call goes on to
\* the model.
C19_GuardBoundaryAndTruncation ==
    \A c \in PastGuard :
        LET ms == args[c].max_audio_length_ms
            P  == PromptLen(c)
        IN  /\ ms >= 0 => max_generation_len[c] = ms \div 80
            /\ ms < 0 => max_generation_len[c] = -((-ms) \div 80)
            /\ ms >= 0 => (c \in Rejected <=> P >= 2048 - (ms \div 80))
            /\ ms >= 0 => (c \in Accepted <=> P < 2048 - (ms \div 80))
            /\ (c \in Accepted /\ ms >= 80 /\ pc[c] # "loop") => calls[c].frame >= 1
            /\ c \in Rejected => calls[c].frame = 0

\* C19 witness: under a budget that is no multiple of 80 ms, a call whose prompt
\* has exactly 2048 - max_generation_len - 1 rows has invoked the model.
C19_Witness ==
    \E c \in Callers :
        /\ c \in Accepted
        /\ args[c].max_audio_length_ms % 80 # 0
        /\ args[c].max_audio_length_ms > 80
        /\ PromptLen(c) = 2048 - max_generation_len[c] - 1
        /\ calls[c].frame >= 1

\* One step of the program keeps every call's accepted frames as a prefix of what
\* they are after the step, adding at most one frame at the end; the step that
\* decodes hands over the K x T matrix whose column t is the t-th accepted frame.
AppendOnlyStep ==
    \A c \in Callers :
        /\ pc'[c] # "idle"
           => /\ Len(samples'[c]) \in {Len(samples[c]), Len(samples[c]) + 1}
              /\ \A t \in 1..Len(samples[c]) : samples'[c][t] = samples[c][t]
        /\ (pc[c] = "post" /\ pc'[c] = "ret" /\ samples[c] # <<>>)
           => /\ samples'[c] = samples[c]
              /\ calls'[c].decode = 1
              /\ Len(audio'[c].codes) = 32
              /\ \A k \in 1..32 :
                    /\ Len(audio'[c].codes[k]) = Len(samples[c])
                    /\ \A t \in 1..Len(samples[c]) :
                          audio'[c].codes[k][t] = samples[c][t][k]

\* C20: within a call the accepted-frames list only grows by appending at its end:
\* the list before a step is a prefix of the list after it; the audio-token matrix
\* handed to decode is K x T with column t the t-th accepted frame, in acceptance
\* order.
C20_NoBacktracking == [][AppendOnlyStep]_vars

\* C20 witness: three frames, not all alike, have been accepted one after the other
\* and decoded.
C20_Witness ==
    \E c \in Callers :
        /\ pc[c] = "ret"
        /\ Len(samples[c]) = 3
        /\ samples[c][1] # samples[c][2]
        /\ Len(audio[c].codes[1]) = 3
        /\ audio[c].codes[1] = <<samples[c][1][1], samples[c][2][1], samples[c][3][1]>>

\* A text row: the mask marks the text slot only and the K audio slots hold 0.
IsTextRow(tokens, mask) ==
    /\ DOMAIN tokens = 1..33 /\ DOMAIN mask = 1..33
    /\ mask[33] = TRUE
    /\ \A k \in 1..32 : mask[k] = FALSE /\ tokens[k] = 0

\* An audio row: the mask marks the first K slots only and the text slot holds 0.
IsAudioRow(tokens, mask) ==
    /\ DOMAIN tokens = 1..33 /\ DOMAIN mask = 1..33
    /\ mask[33] = FALSE /\ tokens[33] = 0
    /\ \A k \in 1..32 : mask[k] = TRUE

\* A row of exactly one modality.
OneModality(tokens, mask) ==
    /\ IsTextRow(tokens, mask) \/ IsAudioRow(tokens, mask)
    /\ ~(IsTextRow(tokens, mask) /\ IsAudioRow(tokens, mask))
    /\ \E j \in 1..33 : mask[j] = TRUE
    /\ ~(mask[33] = TRUE /\ \E k \in 1..32 : mask[k] = TRUE)

\* C21: every row of the assembled prompt, of every window held for the model and
\* of every timestep already fed to it is either a text row (mask true on the text
\* slot only, the K audio slots 0) or an audio row (mask true on exactly the first
\* K slots, the text slot false and 0); no row has both modalities and none has an
\* all-false mask.
C21_RowModality ==
    \A c \in Callers :
        /\ pc[c] \in {"loop", "post", "ret", "done", "failed"}
           => /\ Len(curr_tokens[c]) = Len(curr_tokens_mask[c])
              /\ \A i \in 1..Len(curr_tokens[c]) :
                    OneModality(curr_tokens[c][i], curr_tokens_mask[c][i])
        /\ HoldsPrompt(c)
           => /\ IsTextRow(curr_tokens[c][Len(curr_tokens[c])],
                           curr_tokens_mask[c][Len(curr_tokens[c])])
              /\ Len(curr_tokens[c]) = PromptLen(c)
        /\ (pc[c] = "loop" /\ calls[c].frame >= 1)
           => IsAudioRow(curr_tokens[c][1], curr_tokens_mask[c][1])
        /\ c \in InFlight
           => \A i \in 1..Len(cache) : OneModality(cache[i].tokens, cache[i].mask)

\* C21 witness: the model has been fed a prompt with two context segments and then
\* a generated frame, and the loop has left a window of one audio row.
C21_Witness ==
    \E c \in Callers :
        /\ pc[c] = "post"
        /\ calls[c].frame = 2
        /\ Len(samples[c]) = 2
        /\ IsAudioRow(curr_tokens[c][1], curr_tokens_mask[c][1])
        /\ Len(segments[c]) = 2
        /\ \E i \in 1..Len(cache) : IsAudioRow(cache[i].tokens, cache[i].mask)
        /\ \E i \in 1..Len(cache) : IsTextRow(cache[i].tokens, cache[i].mask)
        /\ IsAudioRow(cache[Len(cache)].tokens, cache[Len(cache)].mask)

\* The number of frames of the first n tokenized segments of a context.
RECURSIVE FramesBefore(_, _, _)
FramesBefore(context, rate, n) ==
    IF n = 0 THEN 0
    ELSE FramesBefore(context, rate, n - 1) + Len(TokenizeSegment(context[n], rate).tokens)

\* The prompt of thread c's call as the first generate_frame invocation gets it:
\* the window held for it, or the timesteps it wrote to the cache.
PromptFed(c) ==
    IF calls[c].frame = 0
    THEN [tokens |-> curr_tokens[c], mask |-> curr_tokens_mask[c]]
    ELSE LET n == Len(cache) - (calls[c].frame - 1)
         IN  [tokens |-> [i \in 1..n |-> cache[i].tokens],
              mask   |-> [i \in 1..n |-> cache[i].mask]]

\* C22: the prompt passed to the first generate_frame invocation is the tokenized
\* context segments in the caller-given order (each one's text frames before its
\* audio frames), then the target's text frames only, with no audio frame and no
\* end-of-segment frame; its length is the sum of the segments' frame counts plus
\* the target's token count, and with an empty context it is the target's text
\* frames alone.
C22_PromptAssemblyOrder ==
    \A c \in Callers :
        (HoldsPrompt(c) \/ (pc[c] \in {"loop", "post", "ret", "done"} /\ calls[c].frame >= 1)
                        \/ calls[c].raised > 0)
        => LET ctx   == segments[c]
               ids   == TextEncode(FormatText(args[c].text, args[c].speaker))
               total == FramesBefore(ctx, sample_rate, Len(ctx))
               fed   == PromptFed(c)
           IN  /\ Len(ctx) = Len(args[c].context)
               /\ \A i \in 1..Len(ctx) :
                     /\ ctx[i].text = args[c].context[i].text
                     /\ ctx[i].speaker = args[c].context[i].speaker
               /\ Len(fed.tokens) = total + Len(ids)
               /\ Len(fed.mask) = total + Len(ids)
               /\ \A i \in 1..Len(ctx) :
                     LET off == FramesBefore(ctx, sample_rate, i - 1)
                         seg == TokenizeSegment(ctx[i], sample_rate)
                         n   == Len(TextEncode(FormatText(ctx[i].text, ctx[i].speaker)))
                     IN  /\ SubSeq(fed.tokens, off + 1, off + Len(seg.tokens)) = seg.tokens
                         /\ SubSeq(fed.mask, off + 1, off + Len(seg.mask)) = seg.mask
                         /\ \A r \in 1..Len(seg.tokens) :
                               fed.mask[off + r][33] = (r <= n)
               /\ \A r \in 1..Len(ids) :
                     /\ fed.tokens[total + r][33] = ids[r]
                     /\ fed.mask[total + r][33] = TRUE
                     /\ \A k \in 1..32 :
                           fed.tokens[total + r][k] = 0 /\ fed.mask[total + r][k] = FALSE
               /\ ctx = <<>> => Len(fed.tokens) = Len(ids)

\* C22 witness: a prompt of two context segments of different lengths and the
\* target's text has been passed to the model.
C22_Witness ==
    \E c \in Callers :
        /\ pc[c] = "loop"
        /\ calls[c].frame = 1
        /\ Len(segments[c]) = 2
        /\ Len(TokenizeSegment(segments[c][1], sample_rate).tokens)
              # Len(TokenizeSegment(segments[c][2], sample_rate).tokens)
        /\ Len(cache) = FramesBefore(segments[c], sample_rate, 2) + 4

\* The positions of the operations called `name` in a waveform's history.
OpsNamed(w, name) == {i \in 1..Len(w.ops) : w.ops[i][1] = name}

\* C23 as stated: in every call made with watermarking enabled the embedder is
\* invoked exactly once.
C23_EmbedderAlwaysOnce ==
    \A c \in Callers :
        (pc[c] = "done" /\ watermarker # "None") => calls[c].embed = 1

\* C23: in every call the codec's decode is invoked at most once, only after the
\* loop has ended and on the full matrix of accepted frames; when watermarking is
\* enabled and at least one frame was accepted the embedder is invoked exactly
\* once, after decode, on the waveform resampled to the embedding rate and with
\* the key [212, 211, 146, 56, 201] (with no accepted frame neither is invoked);
\* no generate_frame invocation follows decode.
C23_PostLoopPipelineOrder ==
    \A c \in Callers :
        /\ calls[c].decode <= 1
        /\ calls[c].embed <= 1
        /\ pc[c] \in {"entry", "assemble", "loop", "post", "failed"}
           => calls[c].decode = 0 /\ calls[c].embed = 0
        /\ calls[c].decode = 1
           => /\ stop[c] \in {"model", "length"}
              /\ calls[c].frame = Len(samples[c]) + (IF stop[c] = "model" THEN 1 ELSE 0)
              /\ samples[c] # <<>>
              /\ \A k \in 1..32 : \A t \in 1..Len(samples[c]) :
                    audio[c].codes[k][t] = samples[c][t][k]
              /\ Len(audio[c].codes[1]) = Len(samples[c])
              /\ OpsNamed(audio[c], "decode") = {1}
        /\ pc[c] \in {"ret", "done"}
           => /\ calls[c].decode = (IF samples[c] = <<>> THEN 0 ELSE 1)
              /\ calls[c].embed =
                    (IF samples[c] # <<>> /\ watermarker # "None" THEN 1 ELSE 0)
              /\ Cardinality(OpsNamed(audio[c], "embed")) = calls[c].embed
              /\ calls[c].embed = 1
                 => /\ audio[c].key = <<212, 211, 146, 56, 201>>
                    /\ \A e \in OpsNamed(audio[c], "embed") :
                          /\ e > 1
                          /\ audio[c].ops[e][2] = 44100
                          /\ sample_rate # 44100
                             => audio[c].ops[e - 1] = <<"resample", sample_rate, 44100>>
              /\ calls[c].embed = 0 => audio[c].key = <<>>

\* C23 witness: a watermarking engine has decoded two accepted frames, resampled
\* the waveform to the embedding rate and embedded the key in it.
C23_Witness ==
    \E c \in Callers :
        /\ pc[c] = "ret"
        /\ Len(samples[c]) = 2
        /\ calls[c].decode = 1
        /\ calls[c].embed = 1
        /\ audio[c].ops[1][1] = "decode"
        /\ audio[c].ops[2] = <<"resample", sample_rate, 44100>>
        /\ audio[c].ops[3][1] = "embed"

\* C24: when watermarking is enabled and the embedder, or one of the two resamples
\* around it, raises in a call, the call fails with that failure and returns no
\* waveform: neither Generator.generate nor CsmRuntime.generate gives back the
\* decoded waveform without its watermark.
C24_WatermarkFailureNoFallback ==
    \A c \in Callers :
        (/\ pc[c] \in {"ret", "done", "failed"}
         /\ watermarker # "None"
         /\ wmFailStage \in {"upsample", "embed", "downsample"}
         /\ stop[c] \in {"model", "length"}
         /\ Len(samples[c]) >= WmFailFrames)
        => /\ pc[c] = "failed"
           /\ result[c].status = "WatermarkError"
           /\ audio[c] = NoTensor
           /\ result[c].audio = NoTensor
           /\ calls[c].decode = 1
           /\ calls[c].embed = (IF wmFailStage = "upsample" THEN 0 ELSE 1)

\* C24 witness: the embedder itself has raised on the decoded waveform of two
\* accepted frames and the call has failed.
C24_Witness ==
    \E c \in Callers :
        /\ pc[c] = "failed"
        /\ result[c].status = "WatermarkError"
        /\ wmFailStage = "embed"
        /\ Len(samples[c]) = 2
        /\ calls[c].decode = 1
        /\ calls[c].embed = 1

\* The decoding loop of a call with arguments a, run on a cache of its own from
\* iteration `done` on: the accepted frames, and whether the model raised.
RECURSIVE FreshLoop(_, _, _, _, _, _, _)
FreshLoop(a, mgl, c, tokens, mask, pos, acc) ==
    IF ~LoopContinues(Len(acc), mgl)
    THEN [samples |-> acc, raised |-> FALSE]
    ELSE LET c1     == CacheWrite(c, tokens, mask, pos, 0)
             sample == ModelFrame(c1, a.temperature, a.topk, modelStop)
         IN  IF ModelRaises(c1, modelFailAt)
             THEN [samples |-> acc, raised |-> TRUE]
             ELSE IF IsStopFrame(sample)
                  THEN [samples |-> acc, raised |-> FALSE]
                  ELSE FreshLoop(a, mgl, c1, NextTokens(sample), NextMask(sample),
                                 NextPos(pos), Append(acc, sample))

\* What CsmRuntime.generate returns or raises for arguments a on an engine
\* instance of the same construction that has served no call before.
FreshResult(a) ==
    LET mgl    == MaxGenerationLen(a.max_audio_length_ms)
        prompt == AssemblePrompt(a.text, a.speaker, BuildContext(a.context, sample_rate),
                                 sample_rate)
        P      == Len(prompt.tokens)
        loop   == FreshLoop(a, mgl, <<>>, prompt.tokens, prompt.mask,
                            [i \in 1..P |-> i - 1], <<>>)
    IN  IF GuardRejects(P, mgl)
        THEN [NoResult EXCEPT !.status = "ValueError"]
        ELSE IF loop.raised
        THEN [NoResult EXCEPT !.status = "ModelError"]
        ELSE IF WatermarkFault(loop.samples, watermarker, wmFailStage) # "none"
        THEN [NoResult EXCEPT !.status = "WatermarkError"]
        ELSE RuntimeResult(PostProcess(loop.samples, watermarker, sample_rate).audio,
                           sample_rate)

\* The outcomes of a failed call.
Failures == {"ValueError", "ModelError", "WatermarkError"}

\* C25: after a call on an engine instance has failed (rejected by the guard, or
\* by a collaborator's failure, also in mid-loop with a partly filled cache), the
\* next call on the instance ends as the same call does on an instance that never
\* saw the failed call: a valid call succeeds, with exactly the same result.
C25_FailureFatalToCallOnly ==
    \A c \in Callers :
        (pc[c] \in {"done", "failed"} /\ prev.result.status \in Failures)
        => /\ result[c] = FreshResult(args[c])
           /\ FreshResult(args[c]).status = "ok"
              => /\ pc[c] = "done"
                 /\ result[c].status = "ok"

\* C25 witness: a call has returned the audio of an accepted frame right after a
\* call in which the model raised at its second invocation, the cache holding the
\* prompt and a generated frame.
C25_Witness ==
    \E c \in Callers :
        /\ pc[c] = "done"
        /\ prev.result.status = "ModelError"
        /\ result[c].status = "ok"
        /\ Len(samples[c]) = 1
        /\ NumSamples(result[c].audio) > 1
        /\ modelFailAt = 2

\* C26 as stated: in every state in which no generate call is in flight on the
\* engine instance, the model cache holds no entry written by a finished or
\* failed call.
C26_CacheEmptyBetweenCalls ==
    InFlight = {} => cache = <<>>

\* C27: every generate_frame invocation of a call receives the temperature and the
\* topk the caller passed to generate, with batch dimension 1, and the token
\* window, the mask window and the position vector of one invocation have the
\* same number of timesteps.
C27_ConstantSamplingAndShape ==
    \A c \in Callers :
        /\ Len(calls[c].fed) = calls[c].frame
        /\ \A i \in 1..Len(calls[c].fed) :
              LET f == calls[c].fed[i]
              IN  /\ f.temperature = args[c].temperature
                  /\ f.topk = args[c].topk
                  /\ f.tokens[1] = 1 /\ f.mask[1] = 1 /\ f.pos[1] = 1
                  /\ f.tokens[2] = f.mask[2]
                  /\ f.tokens[2] = f.pos[2]
                  /\ f.tokens[3] = 33 /\ f.mask[3] = 33
        /\ pc[c] = "loop"
           => /\ Len(curr_tokens[c]) = Len(curr_tokens_mask[c])
              /\ Len(curr_tokens[c]) = Len(curr_pos[c])

\* C27 witness: two invocations of a call made with temperature 0.7: the first
\* over a prompt of several timesteps, the second over one.
C27_Witness ==
    \E c \in Callers :
        /\ Len(calls[c].fed) = 2
        /\ args[c].temperature = 7
        /\ calls[c].fed[1].temperature = 7
        /\ calls[c].fed[2].temperature = 7
        /\ calls[c].fed[1].tokens[2] > 4
        /\ calls[c].fed[2].tokens[2] = 1

\* C28: when max_audio_length_ms < 80, max_generation_len = int(ms / 80) <= 0; a
\* call that passes the guard then invokes generate_frame zero times and returns a
\* zero-length waveform with success; the guard bound being 2048 -
\* max_generation_len, a budget <= -80 lets a prompt of 2048 rows or more pass,
\* still with no model invocation.
C28_NonPositiveBudget ==
    \A c \in PastGuard :
        LET ms == args[c].max_audio_length_ms
            P  == PromptLen(c)
        IN  ms < 80
            => /\ max_generation_len[c] <= 0
               /\ max_generation_len[c] = (IF ms >= 0 THEN 0 ELSE -((-ms) \div 80))
               /\ c \in Rejected <=> P >= 2048 - max_generation_len[c]
               /\ c \notin Rejected
                  => /\ pc[c] \in {"post", "ret", "done"}
                     /\ calls[c].frame = 0
                     /\ samples[c] = <<>>
                     /\ cache = <<>>
                     /\ pc[c] \in {"ret", "done"}
                        => /\ Ndim(audio[c]) = 1
                           /\ NumSamples(audio[c]) = 0
                     /\ pc[c] = "done"
                        => /\ result[c].status = "ok"
                           /\ NumSamples(result[c].audio) = 0

\* C28 witness: under a budget of -160 ms a call with a prompt of more than 2048
\* rows has returned a zero-length waveform without any model invocation.
C28_Witness ==
    \E c \in Callers :
        /\ pc[c] = "done"
        /\ args[c].max_audio_length_ms <= -80
        /\ PromptLen(c) >= 2048
        /\ calls[c].frame = 0
        /\ result[c].status = "ok"
        /\ NumSamples(result[c].audio) = 0

\* C29: for every successful CsmRuntime.generate call, watermarking enabled or not
\* and whatever the engine's sample rate, the 'sample_rate' returned is the
\* engine's native rate and the waveform returned is at that rate, the watermark's
\* output being resampled from its output rate back to the engine's rate.
C29_ReportedRateMatchesAudio ==
    \A c \in Callers :
        (pc[c] = "done" /\ result[c].status = "ok")
        => /\ result[c].sample_rate = sample_rate
           /\ samples[c] # <<>>
              => /\ result[c].audio.rate = result[c].sample_rate
                 /\ NumSamples(result[c].audio) * 1000
                       = Len(samples[c]) * 80 * result[c].sample_rate
                 /\ (watermarker # "None" /\ sample_rate > 44100)
                    => result[c].audio.ops[Len(result[c].audio.ops)]
                          = <<"resample", 44100, sample_rate>>
                 /\ watermarker = "None"
                    => OpsNamed(result[c].audio, "resample") = {}

\* C29 witness: an engine at 48000 Hz has returned watermarked audio whose last
\* operation is the resample from 44100 Hz back to 48000 Hz.
C29_Witness ==
    \E c \in Callers :
        /\ pc[c] = "done"
        /\ result[c].status = "ok"
        /\ sample_rate = 48000
        /\ result[c].sample_rate = 48000
        /\ OpsNamed(result[c].audio, "embed") # {}
        /\ result[c].audio.ops[Len(result[c].audio.ops)] = <<"resample", 44100, 48000>>

\* C30: when the loop ends with no accepted frame, the call invokes neither the
\* codec's decode, nor the embedder, nor the resampler, with watermarking enabled
\* or not; the zero-length waveform is one the engine makes itself (torch.zeros(0)),
\* not the decoding of an empty matrix.
C30_ZeroFramesBypassPipeline ==
    \A c \in Callers :
        (pc[c] \in {"ret", "done"} /\ samples[c] = <<>>)
        => /\ calls[c].decode = 0
           /\ calls[c].embed = 0
           /\ calls[c].resample = 0
           /\ audio[c].ops = << <<"zeros", 0, 0>> >>
           /\ audio[c].codes = <<>>
           /\ audio[c].key = <<>>
           /\ OpsNamed(audio[c], "decode") = {}
           /\ pc[c] = "done" => result[c].audio.ops = << <<"zeros", 0, 0>> >>

\* C30 witness: on a watermarking engine the model's first frame was all-zero and
\* the call has returned with no decode, embed or resample.
C30_Witness ==
    \E c \in Callers :
        /\ pc[c] = "done"
        /\ watermarker # "None"
        /\ samples[c] = <<>>
        /\ calls[c].frame = 1
        /\ max_generation_len[c] >= 1
        /\ calls[c].decode + calls[c].embed + calls[c].resample = 0
        /\ result[c].status = "ok"

====
